---- MODULE Spec2Model ----
(***************************************************************************)
(* Reminder notification pipeline of the shared calendar app:              *)
(*   server/reminder-job.ts  processReminders, startReminderJob,           *)
(*                           stopReminderJob                               *)
(*   server/db.ts            getPendingReminders, markReminderNotified,    *)
(*                           sendTelegramMessage, getEventFriends,         *)
(*                           createReminder, deleteEventReminders,         *)
(*                           updateEvent, deleteEvent                      *)
(*   routers (part_013)      events.create / events.update / events.delete *)
(*                                                                         *)
(* Every await of processReminders is a step of its own, so that several   *)
(* activations of processReminders (the immediate run of startReminderJob  *)
(* and the setInterval callbacks) and the request handlers interleave the  *)
(* way the Node event loop lets them.                                      *)
(***************************************************************************)
EXTENDS Integers, Sequences, FiniteSets, Bags, TLC

\* ---------------------------------------------------------------- bounds
MaxEvents == 1        \* event rows ever inserted (autoincrement ids 1..MaxEvents)
MaxReminders == 2     \* reminder rows ever inserted
MaxCycles == 1        \* activations of processReminders at a time, under Spec
MaxOverlap == 2       \* activations of processReminders at a time, under SpecOverlap
MaxAdvances == 1      \* clock advances
MaxDays == 1          \* days the clock moves on, under SpecRecur

\* ------------------------------------------------------ program constants
Null == 0                                   \* null / undefined
MalaysiaOffsetMs == 8 * 60 * 60 * 1000      \* db.ts:251
MsPerMinute == 60 * 1000                    \* db.ts:271
IntervalMs == 60 * 1000                     \* reminder-job.ts:137

\* ------------------------------------------------------------ input sets
\* Server clock (UTC ms since midnight): 06:14:59 UTC = 14:14:59 in GMT+8.
ClockStart == 22499 * 1000
\* The clock moves by a second or by a timer period.
ClockSteps == {1000, IntervalMs}
Users == {1, 2}
\* The users who create events.
Creators == {1}
\* Stored start times, naive wall clock read as UTC ms: 14:30:00 and 14:20:59.
StartTimes == {52200 * 1000, 51659 * 1000}
\* repeatType values a request supplies (schema.ts:76 has weekly, monthly and
\* yearly too).
RepeatTypes == {"none", "daily"}
\* part_013:147 the repeatType of an event created without one.
DefaultRepeat == "none"
\* The period of a daily event.
DayMs == 24 * 60 * 60 * 1000
\* reminderMinutes arrays a request supplies: z.array(z.number()), so an
\* array may hold a lead time twice.
MinuteLists == {<< >>, <<15>>, <<5, 15>>, <<15, 15>>}
\* reminderMinutes of the event a database starts with.
StoredMinuteLists == {<<15>>, <<5, 15>>}
\* The friends table holds friends 1, 2, 3; friend 2 has no telegramChatId.
FriendsWithChat == {1, 3}
\* friendIds arrays a request supplies.
FriendLists == {<< >>, <<1, 2, 3>>}

VARIABLES
    now,            \* Date.now() of the server, UTC ms
    events,         \* events table: id -> [userId, startTime, repeatType]
    nextEventId,    \* autoincrement counter of events
    eventFriends,   \* event_friends table: eventId -> sequence of friend ids
    reminders,      \* reminders table: id -> [eventId, minutesBefore, notified, notifiedAt]
    nextReminderId, \* autoincrement counter of reminders
    intervalId,     \* reminder-job.ts module variable: Null or a timer handle
    timers,         \* timers installed in the runtime: handle -> next fire time
    cycles,         \* activations of processReminders: slot -> record
    ownerAttempts,  \* history: reminder id -> the owner sends of that row
    call,           \* the display function being evaluated: its inputs and result
    friendRows,     \* friends table: id -> [userId, telegramChatId]
    registrations   \* /register webhook requests being handled (a bag of records)

vars == << now, events, nextEventId, eventFriends, reminders, nextReminderId,
           intervalId, timers, cycles, ownerAttempts, call, friendRows, registrations >>

\* The state outside the reminder job and the event requests.
restVars == << call, friendRows, registrations >>

\* No display function evaluated yet.
NoCall == [fn |-> "none"]

\* The server before any screen is shown and any /register arrives.
RestInit ==
    /\ call = NoCall
    /\ friendRows = << >>
    /\ registrations = EmptyBag

\* ---------------------------------------------------------------- helpers
MinOf(S) == CHOOSE x \in S : \A y \in S : x <= y

RECURSIVE SortedSeq(_)
SortedSeq(S) == IF S = {} THEN << >>
                ELSE << MinOf(S) >> \o SortedSeq(S \ {MinOf(S)})

\* An optional input of a request: None (undefined) or <<value>>.
None == << >>
Some(S) == {<<x>> : x \in S}
Given(opt) == Len(opt) = 1

Remove(f, k) == [x \in DOMAIN f \ {k} |-> f[x]]

Put(f, k, v) == [x \in DOMAIN f \cup {k} |-> IF x = k THEN v ELSE f[x]]

\* ------------------------------------------------------------ persistence
\* Variant of IsDue: a strict comparison.
IsDueStrict(startTime, minutesBefore, nowMs) ==
    startTime - minutesBefore * MsPerMinute < nowMs + MalaysiaOffsetMs

\* db.ts getPendingReminders: notifyTimeMs <= nowMalaysiaTime
IsDue(startTime, minutesBefore, nowMs) ==
    startTime - minutesBefore * MsPerMinute <= nowMs + MalaysiaOffsetMs

\* Variant of GetPendingReminders: the due check goes by the occurrences of
\* a daily event, so a row is due again for the occurrence of the next day.
GetPendingRemindersPerOccurrence(rem, ev, nowMs) ==
    { id \in DOMAIN rem :
        /\ rem[id].eventId \in DOMAIN ev
        /\ \/ /\ rem[id].notified = FALSE
              /\ IsDue(ev[rem[id].eventId].startTime, rem[id].minutesBefore, nowMs)
           \/ /\ ev[rem[id].eventId].repeatType = "daily"
              /\ IsDue(ev[rem[id].eventId].startTime + DayMs, rem[id].minutesBefore, nowMs)
              /\ ~IsDue(ev[rem[id].eventId].startTime + DayMs, rem[id].minutesBefore,
                        rem[id].notifiedAt) }

\* Variant of GetPendingReminders: the WHERE notified = false is missing.
GetPendingRemindersAnyFlag(rem, ev, nowMs) ==
    { id \in DOMAIN rem :
        /\ rem[id].eventId \in DOMAIN ev
        /\ IsDue(ev[rem[id].eventId].startTime, rem[id].minutesBefore, nowMs) }

\* db.ts getPendingReminders: reminders INNER JOIN events WHERE notified = false,
\* then the filter on the notify time. The ids of the rows returned.
GetPendingReminders(rem, ev, nowMs) ==
    { id \in DOMAIN rem :
        /\ rem[id].notified = FALSE
        /\ rem[id].eventId \in DOMAIN ev
        /\ IsDue(ev[rem[id].eventId].startTime, rem[id].minutesBefore, nowMs) }

\* The (reminder, event) pairs of the result, in the order of the rows.
PendingRows(rem, ev, nowMs) ==
    LET ids == SortedSeq(GetPendingReminders(rem, ev, nowMs))
    IN  [i \in 1 .. Len(ids) |->
            [rid |-> ids[i], eid |-> rem[ids[i]].eventId,
             uid |-> ev[rem[ids[i]].eventId].userId,
             start |-> ev[rem[ids[i]].eventId].startTime]]

\* Variant of MarkReminderNotified: SET notified = NOT notified.
MarkReminderNotifiedToggles(rem, id, nowMs) ==
    IF id \in DOMAIN rem
    THEN [rem EXCEPT ![id].notified = ~@, ![id].notifiedAt = nowMs]
    ELSE rem

\* Variant of MarkReminderNotified: SET notified = true, notifiedAt untouched.
MarkReminderNotifiedFlagOnly(rem, id, nowMs) ==
    IF id \in DOMAIN rem
    THEN [rem EXCEPT ![id].notified = TRUE]
    ELSE rem

\* db.ts markReminderNotified: UPDATE reminders SET notified = true,
\* notifiedAt = new Date() WHERE id = ?  (no row, no change)
MarkReminderNotified(rem, id, nowMs) ==
    IF id \in DOMAIN rem
    THEN [rem EXCEPT ![id].notified = TRUE, ![id].notifiedAt = nowMs]
    ELSE rem

\* Variant of FailedMark: the flag is written although the call rejects.
FailedMarkWrites(rem, id) ==
    IF id \in DOMAIN rem THEN [rem EXCEPT ![id].notified = TRUE] ELSE rem

\* db.ts markReminderNotified when the UPDATE rejects (or no database is
\* there, db.ts:288): nothing is written.
FailedMark(rem, id) == rem

\* Variant of NewReminderId: the smallest id no row has, so the id of a
\* deleted row is given again.
NewReminderIdReused(rem, next) ==
    CHOOSE x \in 1 .. next : x \notin DOMAIN rem /\ \A y \in 1 .. (x - 1) : y \in DOMAIN rem

\* db.ts createReminder: INSERT, the id is the autoincrement counter, whatever
\* rows were deleted.
NewReminderId(rem, next) == next

RECURSIVE CreateReminders(_, _, _, _)
CreateReminders(rem, next, eventId, minutes) ==
    IF minutes = << >> THEN rem
    ELSE CreateReminders(
            Put(rem, NewReminderId(rem, next),
                [eventId |-> eventId, minutesBefore |-> Head(minutes),
                 notified |-> FALSE, notifiedAt |-> Null]),
            next + 1, eventId, Tail(minutes))

\* db.ts deleteEventReminders: DELETE FROM reminders WHERE eventId = ?
DeleteEventReminders(rem, eventId) ==
    [id \in {x \in DOMAIN rem : rem[x].eventId # eventId} |-> rem[id]]

\* db.ts getEventFriends: event_friends INNER JOIN friends WHERE eventId = ?
GetEventFriends(ef, eventId) ==
    IF eventId \in DOMAIN ef THEN ef[eventId] ELSE << >>

\* db.ts setEventFriends: DELETE WHERE eventId = ?, then INSERT the given ids.
SetEventFriends(ef, eventId, friendIds) ==
    IF Len(friendIds) > 0 THEN Put(ef, eventId, friendIds) ELSE Remove(ef, eventId)

\* db.ts sendTelegramMessage. settings: what getTelegramSettings gives
\* ("raise": the query rejects, outside the try; "none": no row, disabled or
\* no bot token; "ok"). hasChat: overrideChatId || settings.chatId is set.
\* fetch: "ok" (2xx), "non2xx", "neterr" (fetch rejects, caught).
SendTelegramMessage(settings, hasChat, fetch) ==
    IF settings = "raise" THEN "raise"
    ELSE IF settings = "none" THEN "false"
    ELSE IF ~hasChat THEN "false"
    ELSE IF fetch = "ok" THEN "true"
    ELSE "false"

\* db.ts:401 the call gets as far as the fetch to api.telegram.org.
ReachesTelegram(settings, hasChat) == settings = "ok" /\ hasChat

\* reminder-job.ts:62-77 messageWithMention: the message, with the owner's
\* @username before it when event.notifySelf is set and the user has one.
OwnerMessage(mention) == IF mention THEN "mention" ELSE "plain"

\* Variant of FriendMessage: the friends get messageWithMention.
FriendMessageWithMention(mention) == OwnerMessage(mention)

\* reminder-job.ts:87 the friends get message, which has no mention.
FriendMessage(mention) == "plain"

\* The telegramChatId of a friend of FriendsWithChat.
ChatIdOf(friend) == friend

SettingsOutcomes == {"raise", "none", "ok"}
FetchOutcomes == {"ok", "non2xx", "neterr"}

\* --------------------------------------------------------- processReminders
\* The activations of processReminders in flight are a bag of records: pc is
\* the await the activation is at, pending the query result, idx the pair the
\* loop is at, friends/fidx the friend loop, flog the results of the friend
\* sends of this pair, success the owner send's result, ownerTried whether
\* the owner send of this pair has returned, err the exception caught,
\* mention whether messageWithMention of this pair has the @-mention prefix,
\* fsent the friend sends of this pair: chat id, credentials and text.
StartedCycle == [pc |-> "query", pending |-> << >>, idx |-> 0, friends |-> << >>,
                 fidx |-> 0, flog |-> << >>, processed |-> 0, sent |-> 0,
                 success |-> FALSE, ownerTried |-> FALSE, status |-> "pending",
                 err |-> "none", mention |-> FALSE, fsent |-> << >>]

\* The activations that have not returned yet, and their number.
InFlight == {cy \in BagToSet(cycles) : cy.pc # "done"}

NumInFlight == BagCardinality([cy \in InFlight |-> cycles[cy]])

Replace(bag, old, new) == (bag (-) SetToBag({old})) (+) SetToBag({new})

\* reminder-job.ts:106 return { processed, sent }
ReturnCycle(cy) ==
    [cy EXCEPT !.pc = "done", !.status = "resolved",
               !.friends = << >>, !.fidx = 0, !.flog = << >>, !.success = FALSE,
               !.ownerTried = FALSE, !.mention = FALSE, !.fsent = << >>]

\* Variant of CatchCycleError: the exception leaves processReminders.
RethrowCycleError(cy, kind) ==
    [cy EXCEPT !.pc = "done", !.status = "rejected", !.err = kind,
               !.friends = << >>, !.fidx = 0, !.flog = << >>, !.success = FALSE,
               !.ownerTried = FALSE, !.mention = FALSE, !.fsent = << >>]

\* reminder-job.ts:107-110 the catch of processReminders: logs, returns the counts.
CatchCycleError(cy, kind) ==
    [cy EXCEPT !.pc = "done", !.status = "resolved", !.err = kind,
               !.friends = << >>, !.fidx = 0, !.flog = << >>, !.success = FALSE,
               !.ownerTried = FALSE, !.mention = FALSE, !.fsent = << >>]

\* Index of the first friend at or after position from that has a
\* telegramChatId (reminder-job.ts:85), or Len + 1.
RECURSIVE NextChatIdx(_, _)
NextChatIdx(friends, from) ==
    IF from > Len(friends) THEN Len(friends) + 1
    ELSE IF friends[from] \in FriendsWithChat THEN from
    ELSE NextChatIdx(friends, from + 1)

\* Variant of AfterFriendSend: a failed send ends the friend loop.
AfterFriendSendStopsOnFailure(res, friends, fidx) ==
    IF res # "true" THEN Len(friends) + 1
    ELSE NextChatIdx(friends, fidx + 1)

\* reminder-job.ts:84-93 where the friend loop goes after one friend's send:
\* a returned value goes on with the next friend, an exception leaves the loop.
AfterFriendSend(res, friends, fidx) ==
    IF res = "raise" THEN Len(friends) + 1
    ELSE NextChatIdx(friends, fidx + 1)

\* reminder-job.ts:43-44 the loop takes the next pair, or the function returns.
NextReminder(cy) ==
    IF cy.idx < Len(cy.pending)
    THEN [cy EXCEPT !.pc = "owner", !.idx = cy.idx + 1, !.processed = cy.processed + 1,
                    !.friends = << >>, !.fidx = 0, !.flog = << >>, !.success = FALSE,
               !.ownerTried = FALSE, !.mention = FALSE, !.fsent = << >>]
    ELSE ReturnCycle(cy)

\* reminder-job.ts:41 await getPendingReminders(): the rows, [] when no
\* database is configured (db.ts:242), or the query rejects.
CycleQuery(cy) ==
    /\ cy.pc = "query"
    /\ \E outcome \in {"ok", "nodb", "raise"} :
          LET rows == IF outcome = "ok" THEN PendingRows(reminders, events, now) ELSE << >>
          IN  cycles' = Replace(cycles, cy,
                  IF outcome = "raise" THEN CatchCycleError(cy, "query")
                  ELSE NextReminder([cy EXCEPT !.pending = rows]))
    /\ UNCHANGED << now, events, nextEventId, eventFriends, reminders, nextReminderId,
                    intervalId, timers, ownerAttempts, restVars >>

\* History of a reminder row: "none" no message for the owner was handed to
\* Telegram yet, "one" one was, "twice" a further one was, "markFailed" a
\* markReminderNotified of the row has failed (the sends that follow are
\* retries).
CountAttempt(h) == IF h = "none" THEN "one"
                   ELSE IF h = "one" THEN "twice"
                   ELSE h

\* reminder-job.ts:44-79 the message is built, with the mention or without,
\* then await sendTelegramMessage(event.userId, messageWithMention)
CycleOwner(cy) ==
    /\ cy.pc = "owner"
    /\ LET rid == cy.pending[cy.idx].rid
       IN  \E settings \in SettingsOutcomes, hasChat \in BOOLEAN, fetch \in FetchOutcomes,
              mention \in BOOLEAN :
              LET res == SendTelegramMessage(settings, hasChat, fetch)
              IN  /\ cycles' = Replace(cycles, cy,
                         IF res = "raise" THEN CatchCycleError(cy, "send")
                         ELSE [cy EXCEPT !.pc = "friends", !.success = (res = "true"),
                                         !.ownerTried = TRUE, !.mention = mention])
                  /\ ownerAttempts' = IF ReachesTelegram(settings, hasChat)
                                      THEN [ownerAttempts EXCEPT ![rid] = CountAttempt(@)]
                                      ELSE ownerAttempts
    /\ UNCHANGED << now, events, nextEventId, eventFriends, reminders, nextReminderId,
                    intervalId, timers, restVars >>

\* reminder-job.ts:83 await getEventFriends(event.id), inside the friend try:
\* a rejected query is caught at reminder-job.ts:91.
CycleFriends(cy) ==
    /\ cy.pc = "friends"
    /\ LET eid == cy.pending[cy.idx].eid
       IN  \E outcome \in {"ok", "raise"} :
              LET fs == IF outcome = "ok" THEN GetEventFriends(eventFriends, eid) ELSE << >>
                  j == NextChatIdx(fs, 1)
              IN  cycles' = Replace(cycles, cy,
                      [cy EXCEPT !.pc = IF j > Len(fs) THEN "mark" ELSE "friend",
                                 !.friends = fs, !.fidx = j])
    /\ UNCHANGED << now, events, nextEventId, eventFriends, reminders, nextReminderId,
                    intervalId, timers, ownerAttempts, restVars >>

\* reminder-job.ts:87 await sendTelegramMessage(event.userId, message, friend.telegramChatId)
CycleFriend(cy) ==
    /\ cy.pc = "friend"
    /\ \E settings \in SettingsOutcomes, fetch \in FetchOutcomes :
          LET res == SendTelegramMessage(settings, TRUE, fetch)
              j == AfterFriendSend(res, cy.friends, cy.fidx)
          IN  cycles' = Replace(cycles, cy,
                  [cy EXCEPT !.flog = Append(@, res), !.fidx = j,
                             !.fsent = Append(@, [to |-> ChatIdOf(cy.friends[cy.fidx]),
                                                  creds |-> cy.pending[cy.idx].uid,
                                                  text |-> FriendMessage(cy.mention)]),
                             !.pc = IF j > Len(cy.friends) THEN "mark" ELSE "friend"])
    /\ UNCHANGED << now, events, nextEventId, eventFriends, reminders, nextReminderId,
                    intervalId, timers, ownerAttempts, restVars >>

\* reminder-job.ts:95-103 if (success) sent++; await markReminderNotified(reminder.id)
CycleMark(cy) ==
    /\ cy.pc = "mark"
    /\ LET counted == [cy EXCEPT !.sent = IF cy.success THEN @ + 1 ELSE @]
           rid == cy.pending[cy.idx].rid
       IN  \E outcome \in {"ok", "raise"} :
              IF outcome = "ok"
              THEN /\ reminders' = MarkReminderNotified(reminders, rid, now)
                   /\ cycles' = Replace(cycles, cy, NextReminder(counted))
                   /\ ownerAttempts' = ownerAttempts
              ELSE /\ reminders' = FailedMark(reminders, rid)
                   /\ cycles' = Replace(cycles, cy, CatchCycleError(counted, "mark"))
                   /\ ownerAttempts' = [ownerAttempts EXCEPT ![rid] = "markFailed"]
    /\ UNCHANGED << now, events, nextEventId, eventFriends, nextReminderId,
                    intervalId, timers, restVars >>

\* reminder-job.ts:125-129, 133-136 the caller takes the counts and logs them.
CycleSettled(cy) ==
    /\ cy.pc = "done"
    /\ cycles' = cycles (-) SetToBag({cy})
    /\ UNCHANGED << now, events, nextEventId, eventFriends, reminders, nextReminderId,
                    intervalId, timers, ownerAttempts, restVars >>

\* ---------------------------------------------------------------- scheduler
\* reminder-job.ts:132 the handle setInterval returns: one not in use.
NewHandle(tm) == MinOf((1 .. Cardinality(DOMAIN tm) + 1) \ DOMAIN tm)

\* Variant of StartReminderJob: the check of intervalId is missing.
StartReminderJobUnguarded(cap) ==
    /\ BagCardinality(cycles) < cap
    /\ cycles' = cycles (+) SetToBag({StartedCycle})
    /\ timers' = Put(timers, NewHandle(timers), now + IntervalMs)
    /\ intervalId' = NewHandle(timers)
    /\ UNCHANGED << now, events, nextEventId, eventFriends, reminders,
                    nextReminderId, ownerAttempts, restVars >>

\* reminder-job.ts:116-138 startReminderJob
StartReminderJob(cap) ==
    IF intervalId # Null
    THEN UNCHANGED vars
    ELSE /\ BagCardinality(cycles) < cap
         /\ cycles' = cycles (+) SetToBag({StartedCycle})
         /\ timers' = Put(timers, NewHandle(timers), now + IntervalMs)
         /\ intervalId' = NewHandle(timers)
         /\ UNCHANGED << now, events, nextEventId, eventFriends, reminders,
                         nextReminderId, ownerAttempts, restVars >>

\* Variant of StoppedJob: the timer is cleared, intervalId keeps the handle.
StoppedJobKeepsId(iid, tm) ==
    IF iid # Null
    THEN [intervalId |-> iid, timers |-> Remove(tm, iid)]
    ELSE [intervalId |-> iid, timers |-> tm]

\* Variant of StoppedJob: intervalId is set to null without clearInterval.
StoppedJobTimerLeft(iid, tm) == [intervalId |-> Null, timers |-> tm]

\* reminder-job.ts:141-145 what stopReminderJob leaves of intervalId and the
\* timers: if (intervalId) { clearInterval(intervalId); intervalId = null }
StoppedJob(iid, tm) ==
    IF iid # Null
    THEN [intervalId |-> Null, timers |-> Remove(tm, iid)]
    ELSE [intervalId |-> iid, timers |-> tm]

\* reminder-job.ts:140-146 stopReminderJob
StopReminderJob ==
    /\ intervalId' = StoppedJob(intervalId, timers).intervalId
    /\ timers' = StoppedJob(intervalId, timers).timers
    /\ UNCHANGED << now, events, nextEventId, eventFriends, reminders,
                    nextReminderId, cycles, ownerAttempts, restVars >>

\* reminder-job.ts:132-137 a timer fires once its period has passed; the
\* callback calls processReminders whatever is still in flight.
TimerTick(h, cap) ==
    /\ h \in DOMAIN timers
    /\ now >= timers[h]
    /\ timers' = [timers EXCEPT ![h] = now + IntervalMs]
    /\ BagCardinality(cycles) < cap
    /\ cycles' = cycles (+) SetToBag({StartedCycle})
    /\ UNCHANGED << now, events, nextEventId, eventFriends, reminders, nextReminderId,
                    intervalId, ownerAttempts, restVars >>

\* The server clock moves on.
Advance(d) ==
    /\ ((now - ClockStart) % IntervalMs) \div 1000 + (now - ClockStart) \div IntervalMs
          < MaxAdvances
    /\ now' = now + d
    /\ UNCHANGED << events, nextEventId, eventFriends, reminders, nextReminderId,
                    intervalId, timers, cycles, ownerAttempts, restVars >>

\* ---------------------------------------------------------- request handlers
\* part_013:137-177 events.create
CreateEvent(uid, start, repeat, minutes, friendIds) ==
    /\ nextEventId <= MaxEvents
    /\ nextReminderId + Len(minutes) - 1 <= MaxReminders
    /\ events' = Put(events, nextEventId,
                     [userId |-> uid, startTime |-> start, repeatType |-> repeat])
    /\ nextEventId' = nextEventId + 1
    /\ reminders' = CreateReminders(reminders, nextReminderId, nextEventId, minutes)
    /\ nextReminderId' = nextReminderId + Len(minutes)
    /\ eventFriends' = IF Len(friendIds) > 0
                       THEN SetEventFriends(eventFriends, nextEventId, friendIds)
                       ELSE eventFriends
    /\ UNCHANGED << now, intervalId, timers, cycles, ownerAttempts, restVars >>

\* part_013:197-237 events.update. An optional input is None or <<value>>.
\* db.updateEvent changes the row only WHERE id = ? AND userId = ?, while
\* deleteEventReminders, createReminder and setEventFriends go by the event
\* id alone.
UpdateEvent(id, uid, start, repeat, minutes, friendIds) ==
    /\ Given(minutes) => nextReminderId + Len(minutes[1]) - 1 <= MaxReminders
    /\ events' = IF id \in DOMAIN events /\ events[id].userId = uid
                 THEN [events EXCEPT
                         ![id].startTime = IF Given(start) THEN start[1] ELSE @,
                         ![id].repeatType = IF Given(repeat) THEN repeat[1] ELSE @]
                 ELSE events
    /\ reminders' = IF Given(minutes)
                    THEN CreateReminders(DeleteEventReminders(reminders, id),
                                         nextReminderId, id, minutes[1])
                    ELSE reminders
    /\ nextReminderId' = IF Given(minutes) THEN nextReminderId + Len(minutes[1])
                         ELSE nextReminderId
    /\ eventFriends' = IF Given(friendIds)
                       THEN SetEventFriends(eventFriends, id, friendIds[1])
                       ELSE eventFriends
    /\ UNCHANGED << now, nextEventId, intervalId, timers, cycles, ownerAttempts, restVars >>

\* part_013:239-244 events.delete, db.ts:188-195 deleteEvent: the reminders go
\* by the event id alone, the event row WHERE id = ? AND userId = ?. The
\* function has no DELETE for event_friends (nor for event_departments); its
\* DELETE of event_tags is on a table the model leaves out.
DeleteEvent(id, uid) ==
    /\ reminders' = DeleteEventReminders(reminders, id)
    /\ events' = IF id \in DOMAIN events /\ events[id].userId = uid
                 THEN Remove(events, id)
                 ELSE events
    /\ UNCHANGED << now, nextEventId, eventFriends, nextReminderId, intervalId, timers,
                    cycles, ownerAttempts, restVars >>

\* ------------------------------------------------------------ specification
Init ==
    /\ RestInit
    /\ now = ClockStart
    /\ events = << >>
    /\ nextEventId = 1
    /\ eventFriends = << >>
    /\ reminders = << >>
    /\ nextReminderId = 1
    /\ intervalId = Null
    /\ timers = << >>
    /\ cycles = EmptyBag
    /\ ownerAttempts = [r \in 1 .. MaxReminders |-> "none"]

\* The steps of the activations of processReminders.
CycleStep ==
    \/ \E cy \in BagToSet(cycles) : CycleQuery(cy)
    \/ \E cy \in BagToSet(cycles) : CycleOwner(cy)
    \/ \E cy \in BagToSet(cycles) : CycleFriends(cy)
    \/ \E cy \in BagToSet(cycles) : CycleFriend(cy)
    \/ \E cy \in BagToSet(cycles) : CycleMark(cy)
    \/ \E cy \in BagToSet(cycles) : CycleSettled(cy)

\* The requests of the users, for events that do not repeat: the requests
\* leave repeatType out (SpecRecur has the requests that set it).
RequestStep ==
    \/ \E uid \in Creators, start \in StartTimes, minutes \in MinuteLists,
          friendIds \in FriendLists :
             CreateEvent(uid, start, DefaultRepeat, minutes, friendIds)
    \/ \E id \in 1 .. (nextEventId - 1), uid \in Users,
          start \in Some(StartTimes) \cup {None},
          minutes \in Some(MinuteLists) \cup {None},
          friendIds \in Some(FriendLists) \cup {None} :
             UpdateEvent(id, uid, start, None, minutes, friendIds)
    \/ \E id \in 1 .. (nextEventId - 1), uid \in Users : DeleteEvent(id, uid)

\* The whole server: the job, the clock and the requests, one activation of
\* processReminders at a time.
Next ==
    \/ StartReminderJob(MaxCycles)
    \/ StopReminderJob
    \/ \E h \in DOMAIN timers : TimerTick(h, MaxCycles)
    \/ \E d \in ClockSteps : Advance(d)
    \/ CycleStep
    \/ RequestStep

Spec == Init /\ [][Next]_vars

\* The job over a database that events.create has filled and no request
\* changes: the activations of processReminders overlap.
InitOverlap ==
    /\ RestInit
    /\ now = ClockStart
    /\ \E start \in StartTimes, minutes \in StoredMinuteLists,
          friendIds \in FriendLists :
          /\ events = Put(<< >>, 1, [userId |-> 1, startTime |-> start,
                                     repeatType |-> DefaultRepeat])
          /\ reminders = CreateReminders(<< >>, 1, 1, minutes)
          /\ nextReminderId = Len(minutes) + 1
          /\ eventFriends = SetEventFriends(<< >>, 1, friendIds)
    /\ nextEventId = 2
    /\ intervalId = Null
    /\ timers = << >>
    /\ cycles = EmptyBag
    /\ ownerAttempts = [r \in 1 .. MaxReminders |-> "none"]

NextOverlap ==
    \/ StartReminderJob(MaxOverlap)
    \/ StopReminderJob
    \/ \E h \in DOMAIN timers : TimerTick(h, MaxOverlap)
    \/ \E d \in ClockSteps : Advance(d)
    \/ CycleStep

SpecOverlap == InitOverlap /\ [][NextOverlap]_vars

\* A day goes by.
AdvanceDay ==
    /\ now < ClockStart + MaxDays * DayMs
    /\ now' = now + DayMs
    /\ UNCHANGED << events, nextEventId, eventFriends, reminders, nextReminderId,
                    intervalId, timers, cycles, ownerAttempts, restVars >>

\* The job over days, with one event of any recurrence class that
\* events.create has stored and events.update moves between the classes.
InitRecur ==
    /\ RestInit
    /\ now = ClockStart
    /\ \E start \in StartTimes, repeat \in RepeatTypes, minutes \in StoredMinuteLists,
          friendIds \in FriendLists :
          /\ events = Put(<< >>, 1, [userId |-> 1, startTime |-> start,
                                     repeatType |-> repeat])
          /\ reminders = CreateReminders(<< >>, 1, 1, minutes)
          /\ nextReminderId = Len(minutes) + 1
          /\ eventFriends = SetEventFriends(<< >>, 1, friendIds)
    /\ nextEventId = 2
    /\ intervalId = Null
    /\ timers = << >>
    /\ cycles = EmptyBag
    /\ ownerAttempts = [r \in 1 .. MaxReminders |-> "none"]

NextRecur ==
    \/ StartReminderJob(MaxCycles)
    \/ StopReminderJob
    \/ \E h \in DOMAIN timers : TimerTick(h, MaxCycles)
    \/ AdvanceDay
    \/ CycleStep
    \/ \E uid \in Creators, repeat \in RepeatTypes :
          UpdateEvent(1, uid, None, <<repeat>>, None, None)

SpecRecur == InitRecur /\ [][NextRecur]_vars

\* ------------------------------------------------------------------ claims
\* The activation that has just caught an exception of kind k in this step.
JustFailed(cy, k) ==
    /\ cy.err = k
    /\ CopiesIn(cy, cycles') > CopiesIn(cy, cycles)

\* The friends of a list that have a telegramChatId.
ChatCount(friends) == Cardinality({i \in 1 .. Len(friends) : friends[i] \in FriendsWithChat})

\* C1: at most one activation of processReminders is in flight at any time.
NoOverlappingCycles == NumInFlight <= 1

\* C2: while no markReminderNotified of a row has failed, at most one message
\* for the owner of that row is handed to Telegram.
NoReminderNotifiedTwice ==
    \A r \in DOMAIN ownerAttempts : ownerAttempts[r] # "twice"

\* C3: a row whose notified flag is true is not in the result of
\* getPendingReminders, in any state.
NotifiedNeverPending ==
    \A id \in DOMAIN reminders :
        reminders[id].notified => id \notin GetPendingReminders(reminders, events, now)

\* C3 witness: a notified row whose notify time has arrived and whose event
\* is there, after a further activation has selected nothing.
NotifiedDueRowSkipped ==
    /\ \E id \in DOMAIN reminders :
          /\ reminders[id].notified
          /\ reminders[id].eventId \in DOMAIN events
          /\ IsDue(events[reminders[id].eventId].startTime,
                   reminders[id].minutesBefore, now)
          /\ reminders[id].notifiedAt < now
    /\ \E cy \in BagToSet(cycles) :
          cy.pc = "done" /\ cy.err = "none" /\ cy.pending = << >>

\* C4: when an activation has returned and neither its query nor a
\* markReminderNotified failed, every row of its query result that is still
\* there is notified, whatever the sends did.
EveryPendingMarked ==
    \A cy \in BagToSet(cycles) :
        (cy.pc = "done" /\ cy.err \notin {"query", "mark"}) =>
            \A i \in 1 .. Len(cy.pending) :
                cy.pending[i].rid \in DOMAIN reminders =>
                    reminders[cy.pending[i].rid].notified

\* C5: an activation that has returned has dispatched every pair of its
\* query result, whatever was thrown for an earlier pair.
CycleReachesEveryPending ==
    \A cy \in BagToSet(cycles) :
        cy.pc = "done" => cy.processed = Len(cy.pending)

\* C6: an activation that has returned has resolved with its counts, never
\* rejected; when the query failed the counts are 0 and 0, and the step that
\* fails changes no reminder and leaves the timer installed.
CycleNeverRejects ==
    [][ /\ \A cy \in BagToSet(cycles') :
              cy.pc = "done" =>
                  /\ cy.status = "resolved"
                  /\ cy.err = "query" => (cy.processed = 0 /\ cy.sent = 0)
        /\ (\E cy \in BagToSet(cycles') : JustFailed(cy, "query")) =>
              /\ reminders' = reminders
              /\ timers' = timers
              /\ intervalId' = intervalId ]_vars

\* C6 witness: the query of an activation has failed while the job is
\* started, its timer installed, and a row is due.
QueryFailedJobRunning ==
    /\ \E cy \in BagToSet(cycles) :
          cy.pc = "done" /\ cy.err = "query" /\ cy.processed = 0 /\ cy.sent = 0
    /\ intervalId # Null
    /\ intervalId \in DOMAIN timers
    /\ GetPendingReminders(reminders, events, now) # {}

\* C7: the step in which markReminderNotified fails leaves the row as it
\* was, and after it the row, if it is not notified and its event still has
\* the start time the activation saw, is in the result of getPendingReminders.
FailedMarkIsRetried ==
    [][ \A cy \in BagToSet(cycles') :
            JustFailed(cy, "mark") =>
                LET row == cy.pending[cy.idx]
                IN  /\ row.rid \in DOMAIN reminders =>
                          /\ row.rid \in DOMAIN reminders'
                          /\ reminders'[row.rid] = reminders[row.rid]
                    /\ ( /\ row.rid \in DOMAIN reminders'
                         /\ ~reminders'[row.rid].notified
                         /\ row.eid \in DOMAIN events'
                         /\ events'[row.eid].startTime = row.start ) =>
                          row.rid \in GetPendingReminders(reminders', events', now') ]_vars

\* C7 witness: a row whose mark failed is not notified, and a later
\* activation has selected it and sent to its owner again.
FailedMarkRowDispatchedAgain ==
    \E cy \in BagToSet(cycles) :
        /\ cy.pc = "friends"
        /\ ownerAttempts[cy.pending[cy.idx].rid] = "markFailed"
        /\ cy.pending[cy.idx].rid \in DOMAIN reminders
        /\ ~reminders[cy.pending[cy.idx].rid].notified

\* C8: no step changes the notified flag of a row that stays in the table
\* from true to false.
NotifiedMonotonic ==
    [][ \A id \in DOMAIN reminders \cap DOMAIN reminders' :
            reminders[id].notified => reminders'[id].notified ]_vars

\* C8 witness: a notified row is still notified after events.update has
\* moved its event: at the time the row was notified, the start time the
\* event has now was not due yet.
NotifiedRowSurvivesUpdate ==
    \E id \in DOMAIN reminders :
        /\ reminders[id].notified
        /\ reminders[id].eventId \in DOMAIN events
        /\ ~IsDue(events[reminders[id].eventId].startTime,
                  reminders[id].minutesBefore, reminders[id].notifiedAt)

\* C9: a row that is not notified and whose event is there is in the result
\* of getPendingReminders iff its notify second (start minus minutesBefore
\* minutes) is at or before the second the GMT+8 wall clock shows.
DueIffNotifyTimeReached ==
    \A id \in DOMAIN reminders :
        (~reminders[id].notified /\ reminders[id].eventId \in DOMAIN events) =>
            ( id \in GetPendingReminders(reminders, events, now)
              <=> (events[reminders[id].eventId].startTime \div 1000)
                      - reminders[id].minutesBefore * 60
                  <= (now \div 1000) + 8 * 3600 )

\* C9 witness: an activation has selected a row exactly at its notify time.
SelectedExactlyAtNotifyTime ==
    \E cy \in BagToSet(cycles) :
        /\ cy.pc = "owner"
        /\ cy.pending[cy.idx].start
              - reminders[cy.pending[cy.idx].rid].minutesBefore * MsPerMinute
           = now + MalaysiaOffsetMs

\* C10: once the friend sends of a pair are over and each of them returned
\* (delivered or failed), every tagged friend with a chat id has been sent
\* to; while they go on, every such friend before the current one has been;
\* and the owner send of the row came before any of them.
FanOutIndependent ==
    \A cy \in BagToSet(cycles) :
        /\ (cy.pc = "mark" /\ \A i \in 1 .. Len(cy.flog) : cy.flog[i] \in {"true", "false"})
              => Len(cy.flog) = ChatCount(cy.friends)
        /\ cy.pc = "friend"
              => Len(cy.flog) = ChatCount(SubSeq(cy.friends, 1, cy.fidx - 1))
        /\ cy.flog # << >> => cy.ownerTried

\* C10 witness: the first friend's send failed and the next friend with a
\* chat id was sent to and reached.
FriendFailedNextDelivered ==
    \E cy \in BagToSet(cycles) :
        cy.pc = "mark" /\ cy.flog = <<"false", "true">>

\* The activation cy takes a step from the await pc names, and becomes n.
Moves(cy, pc, n) ==
    /\ cy.pc = pc
    /\ CopiesIn(cy, cycles') < CopiesIn(cy, cycles)
    /\ CopiesIn(n, cycles') > CopiesIn(n, cycles)

\* C11: the owner send of a pair comes before any friend send of it; when the
\* owner send is over, whatever it did, the dispatch goes on with the friend
\* resolution, and from there, whatever the friend resolution and the friend
\* sends did, with further friend sends or the mark, the owner's result kept.
OwnerFirstDispatchGoesOn ==
    [][ \A cy \in BagToSet(cycles) :
          /\ cy.flog # << >> => cy.ownerTried
          /\ cy.pc \in {"friends", "friend", "mark"} => cy.ownerTried
          /\ \A n \in BagToSet(cycles') :
                /\ Moves(cy, "owner", n) =>
                      n.pc = "friends" /\ n.ownerTried /\ n.idx = cy.idx
                /\ (Moves(cy, "friends", n) \/ Moves(cy, "friend", n)) =>
                      /\ n.pc \in {"friend", "mark"}
                      /\ n.ownerTried /\ n.success = cy.success /\ n.idx = cy.idx ]_vars

\* The elements of a sequence.
Range(seq) == {seq[i] : i \in 1 .. Len(seq)}

StartIsIdempotent ==
    [][ /\ Cardinality(DOMAIN timers') <= 1
        /\ intervalId' = Null => DOMAIN timers' = {}
        /\ intervalId' # Null => DOMAIN timers' = {intervalId'}
        /\ (intervalId = Null /\ intervalId' # Null) =>
              /\ cycles' = cycles (+) SetToBag({StartedCycle})
              /\ timers'[intervalId'] = now + IntervalMs
        /\ (intervalId # Null /\ intervalId' # Null) =>
              /\ intervalId' = intervalId
              /\ cycles' = cycles (+) SetToBag({StartedCycle}) =>
                    /\ now >= timers[intervalId]
                    /\ timers'[intervalId] = now + IntervalMs ]_vars

\* C13 witness: the job has just been started from idle: one activation at
\* its first await, one timer a period away.
StartedOnceFromIdle ==
    /\ intervalId # Null
    /\ DOMAIN timers = {intervalId}
    /\ timers[intervalId] = now + IntervalMs
    /\ cycles = SetToBag({StartedCycle})

\* C14: stopReminderJob when the job is not running changes nothing, and
\* stopReminderJob twice leaves what stopReminderJob once leaves: intervalId
\* null and no timer installed.
StopIsIdempotent ==
    LET once == StoppedJob(intervalId, timers)
        twice == StoppedJob(once.intervalId, once.timers)
    IN  /\ twice = once
        /\ once.intervalId = Null
        /\ DOMAIN once.timers = {}
        /\ intervalId = Null => (once.intervalId = intervalId /\ once.timers = timers)

\* C14 witness: the job has been stopped right after its start, the immediate
\* activation still at its first await.
StoppedRightAfterStart ==
    /\ intervalId = Null
    /\ DOMAIN timers = {}
    /\ BagIn(StartedCycle, cycles)

\* The pairs of its query result an activation is through with: all of them
\* once it has returned without an exception, else those before the current.
Completed(cy) == IF cy.pc = "done" /\ cy.err = "none" THEN cy.idx ELSE cy.idx - 1

\* C15: while the job is stopped no activation begins; the step that stops
\* the job changes no activation and no reminder, so an activation in flight
\* goes on; and every pair an activation is through with is marked, stopped
\* or not.
CleanStop ==
    [][ /\ (intervalId = Null /\ intervalId' = Null) =>
              CopiesIn(StartedCycle, cycles') <= CopiesIn(StartedCycle, cycles)
        /\ (intervalId # Null /\ intervalId' = Null) =>
              (cycles' = cycles /\ reminders' = reminders)
        /\ \A cy \in BagToSet(cycles') :
              \A i \in 1 .. Completed(cy) :
                  cy.pending[i].rid \in DOMAIN reminders' =>
                      reminders'[cy.pending[i].rid].notified ]_vars

\* C15 witness: the job is stopped while an activation, begun when the job
\* was running, is in flight: it has sent to the owner and is at the mark.
StoppedWithCycleInFlight ==
    /\ intervalId = Null
    /\ DOMAIN timers = {}
    /\ \E cy \in BagToSet(cycles) :
          /\ cy.pc = "mark" /\ cy.success
          /\ ~reminders[cy.pending[cy.idx].rid].notified

\* C16: when an activation does its query after another has returned, and
\* every row due now was already in the query result of that one (none has
\* become due since), and no query or mark of that one failed, the query
\* result is empty: the second run returns processed 0, sent 0.
SecondRunFindsNothing ==
    [][ \A c1 \in BagToSet(cycles), c2 \in BagToSet(cycles') :
          ( /\ c1.pc = "done" /\ c1.err \notin {"query", "mark"}
            /\ Moves(StartedCycle, "query", c2)
            /\ GetPendingReminders(reminders, events, now)
                  \subseteq {c1.pending[i].rid : i \in 1 .. Len(c1.pending)} )
          => (c2.pending = << >> /\ c2.processed = 0 /\ c2.sent = 0) ]_vars

\* C17: markReminderNotified of a row, once and then again (at the same time
\* or later), leaves the row notified both times; the second call writes the
\* table as the first did but for notifiedAt, and touches no other row.
MarkTwiceKeepsFlag ==
    \A id \in DOMAIN reminders, later \in {0} \cup ClockSteps :
        LET once == MarkReminderNotified(reminders, id, now)
            twice == MarkReminderNotified(once, id, now + later)
        IN  /\ once[id].notified /\ twice[id].notified
            /\ DOMAIN twice = DOMAIN reminders
            /\ twice = [once EXCEPT ![id].notifiedAt = now + later]
            /\ \A other \in DOMAIN reminders \ {id} : twice[other] = reminders[other]

\* C17 witness: two activations have selected the same row, and both have
\* marked it and returned: the row was marked twice and is notified.
RowMarkedTwice ==
    \E cy \in BagToSet(cycles) :
        /\ cycles[cy] = 2
        /\ cy.pc = "done" /\ cy.err = "none"
        /\ Len(cy.pending) = 1
        /\ reminders[cy.pending[1].rid].notified

\* C18: a row is in the result of getPendingReminders for its event iff it is
\* for the same event of any other recurrence class, at every time; and a
\* notified row is in no result, the notify time of a later occurrence of its
\* event arrived or not.
DueIgnoresRecurrence ==
    \A id \in DOMAIN reminders :
        reminders[id].eventId \in DOMAIN events =>
            /\ \A repeat \in RepeatTypes :
                  (id \in GetPendingReminders(reminders, events, now))
                  = (id \in GetPendingReminders(reminders,
                        [events EXCEPT ![reminders[id].eventId].repeatType = repeat], now))
            /\ reminders[id].notified =>
                  id \notin GetPendingReminders(reminders, events, now)

\* C18 witness: the reminder of a daily event was notified for the first
\* occurrence, the notify time of the next day's occurrence has arrived, and
\* an activation has queried and selected nothing.
NextOccurrenceNotDue ==
    /\ \E id \in DOMAIN reminders :
          /\ reminders[id].notified
          /\ reminders[id].notifiedAt < ClockStart + DayMs
          /\ events[reminders[id].eventId].repeatType = "daily"
          /\ IsDue(events[reminders[id].eventId].startTime + DayMs,
                   reminders[id].minutesBefore, now)
    /\ \A id \in DOMAIN reminders : reminders[id].notified
    /\ \E cy \in BagToSet(cycles) :
          cy.pc = "done" /\ cy.err = "none" /\ cy.pending = << >>

\* C19: after every step no two reminder rows have the same event and the
\* same minutesBefore; and after a step that inserts reminder rows for an
\* event, the rows of that event are the rows just inserted, none of them
\* notified, and no older row of it is left.
OneFreshRowPerLeadTime ==
    [][ /\ \A a \in DOMAIN reminders', b \in DOMAIN reminders' :
              (reminders'[a].eventId = reminders'[b].eventId
               /\ reminders'[a].minutesBefore = reminders'[b].minutesBefore) => a = b
        /\ \A new \in nextReminderId .. (nextReminderId' - 1) :
              /\ new \in DOMAIN reminders'
              /\ ~reminders'[new].notified
              /\ \A id \in DOMAIN reminders' :
                    reminders'[id].eventId = reminders'[new].eventId
                        => id \in nextReminderId .. (nextReminderId' - 1) ]_vars

\* C20: after the step that deletes an event row, no reminder row and no
\* friend association of that event is left, and no row of it is in the
\* result of getPendingReminders.
DeleteCascades ==
    [][ \A id \in DOMAIN events \ DOMAIN events' :
          /\ \A r \in DOMAIN reminders' : reminders'[r].eventId # id
          /\ id \notin DOMAIN eventFriends'
          /\ \A r \in GetPendingReminders(reminders', events', now') :
                reminders'[r].eventId # id ]_vars

\* ------------------------------------------------------------------ dates
\* The display functions read a Date down to the minute, so a Date value is
\* kept in whole minutes since the epoch (Date.getTime() / 60000).
MinutesPerDay == DayMs \div MsPerMinute
MinutesPerHour == 60
\* Asia/Kuala_Lumpur is UTC+8 the whole year.
MalaysiaOffsetMinutes == MalaysiaOffsetMs \div MsPerMinute

IsLeapYear(y) == (y % 4 = 0 /\ y % 100 # 0) \/ y % 400 = 0

DaysInMonth(y, m) ==
    IF m = 2 THEN (IF IsLeapYear(y) THEN 29 ELSE 28)
    ELSE IF m \in {4, 6, 9, 11} THEN 30 ELSE 31

DaysInYear(y) == IF IsLeapYear(y) THEN 366 ELSE 365

\* The Gregorian date that lies `days` days after the first of month m of year y.
RECURSIVE DateFrom(_, _, _)
DateFrom(y, m, days) ==
    IF m = 1 /\ days >= DaysInYear(y)
    THEN DateFrom(y + 1, 1, days - DaysInYear(y))
    ELSE IF days >= DaysInMonth(y, m)
    THEN DateFrom(IF m = 12 THEN y + 1 ELSE y, IF m = 12 THEN 1 ELSE m + 1,
                  days - DaysInMonth(y, m))
    ELSE [year |-> y, month |-> m, day |-> days + 1]

\* The date of a day counted from 1970-01-01 (day 0).
DateOfDay(dayNo) == DateFrom(1970, 1, dayNo)

\* The days from 1970-01-01 to the first of month m of year y.
RECURSIVE DaysBefore(_, _)
DaysBefore(y, m) ==
    IF m > 1 THEN DaysInMonth(y, m - 1) + DaysBefore(y, m - 1)
    ELSE IF y > 1970 THEN DaysInYear(y - 1) + DaysBefore(y - 1, 1)
    ELSE 0

\* new Date(year, month - 1, day), as a day number.
DayNumber(y, m, d) == DaysBefore(y, m) + d - 1

\* Date.getDay(): 0 is Sunday; 1970-01-01 was a Thursday.
GetDay(dayNo) == (dayNo + 4) % 7

\* The Date of y-m-d h:mi, read in UTC.
DateUTC(y, m, d, h, mi) ==
    DayNumber(y, m, d) * MinutesPerDay + h * MinutesPerHour + mi

\* getUTCFullYear, getUTCMonth() + 1, getUTCDate, getUTCHours, getUTCMinutes.
UTCParts(date) ==
    LET d == DateOfDay(date \div MinutesPerDay)
    IN  [year |-> d.year, month |-> d.month, day |-> d.day,
         hours |-> (date % MinutesPerDay) \div MinutesPerHour,
         minutes |-> date % MinutesPerHour]

\* The hour cycle Intl.DateTimeFormat("en-US", {hour12: false}) resolves to:
\* "h23" prints midnight as 00, "h24" (runtimes before ECMA-402 2023) as 24.
HourCycles == {"h23", "h24"}

\* getDatePartsMY: the parts Intl.DateTimeFormat prints for the instant in
\* Asia/Kuala_Lumpur, parsed back with parseInt.
GetDatePartsMY(date, hourCycle) ==
    LET p == UTCParts(date + MalaysiaOffsetMinutes)
    IN  [p EXCEPT !.hours = IF p.hours = 0 /\ hourCycle = "h24" THEN 24 ELSE p.hours]

\* formatEventDate: the month and the day of the UTC parts of the Date, each
\* followed by its Japanese suffix (written here in ASCII).
FormatEventDate(date) == << UTCParts(date).month, "gatsu", UTCParts(date).day, "nichi" >>

\* formatEventTime: "HH:MM" of the UTC parts of the Date (padStart adds no
\* digit that tells two times apart).
FormatEventTime(date) == << UTCParts(date).hours, ":", UTCParts(date).minutes >>

\* getPendingReminders compares the stored startTime with now + 8 h, the
\* wall clock of GMT+8 written as a UTC Date: it reads the stored value as
\* the wall clock its UTC parts spell.
StoredWallClock(date) == UTCParts(date)

\* ------------------------------------------------- recurrence evaluator
RecurrenceClasses == {"none", "daily", "weekly", "monthly", "yearly"}

\* year * 10000 + month * 100 + day of isEventOnDate.
DateNum(d) == d.year * 10000 + d.month * 100 + d.day

SameDate(a, b) == a.year = b.year /\ a.month = b.month /\ a.day = b.day

\* Variant of the switch: a monthly event rolls over to the last day of a
\* shorter month.
RepeatMatchesRollsOver(repeatType, eventParts, targetDate) ==
    LET target == DateOfDay(targetDate)
        last == DaysInMonth(target.year, target.month)
    IN  CASE repeatType = "daily" -> TRUE
          [] repeatType = "weekly" ->
                GetDay(targetDate)
                    = GetDay(DayNumber(eventParts.year, eventParts.month, eventParts.day))
          [] repeatType = "monthly" ->
                target.day = (IF eventParts.day > last THEN last ELSE eventParts.day)
          [] repeatType = "yearly" ->
                target.day = eventParts.day /\ target.month = eventParts.month
          [] OTHER -> FALSE

\* The switch on event.repeatType of isEventOnDate; targetDate is a day
\* number, read with getFullYear / getMonth / getDate / getDay.
RepeatMatches(repeatType, eventParts, targetDate) ==
    LET target == DateOfDay(targetDate)
    IN  CASE repeatType = "daily" -> TRUE
          [] repeatType = "weekly" ->
                GetDay(targetDate)
                    = GetDay(DayNumber(eventParts.year, eventParts.month, eventParts.day))
          [] repeatType = "monthly" -> target.day = eventParts.day
          [] repeatType = "yearly" ->
                target.day = eventParts.day /\ target.month = eventParts.month
          [] OTHER -> FALSE

\* Variant: the test for the event's own date is left out.
IsEventOnDateNoOwnDate(event, targetDate, hourCycle) ==
    LET eventParts == GetDatePartsMY(event.startTime, hourCycle)
        target == DateOfDay(targetDate)
    IN  IF DateNum(target) < DateNum(eventParts) THEN FALSE
        ELSE RepeatMatches(event.repeatType, eventParts, targetDate)

\* Variant: the test for dates before the event is left out.
IsEventOnDateNoEarlierTest(event, targetDate, hourCycle) ==
    LET eventParts == GetDatePartsMY(event.startTime, hourCycle)
        target == DateOfDay(targetDate)
    IN  IF SameDate(target, eventParts) THEN TRUE
        ELSE RepeatMatches(event.repeatType, eventParts, targetDate)

\* isEventOnDate(event, targetDate).
IsEventOnDate(event, targetDate, hourCycle) ==
    LET eventParts == GetDatePartsMY(event.startTime, hourCycle)
        target == DateOfDay(targetDate)
    IN  IF DateNum(target) < DateNum(eventParts) THEN FALSE
        ELSE IF SameDate(target, eventParts) THEN TRUE
        ELSE RepeatMatches(event.repeatType, eventParts, targetDate)

\* ------------------------------------------------------ message composer
\* A text field of a row: None for null, << s >> for the string s.
IsTruthy(field) == field # None /\ field[1] # ""

\* REMINDER_LABELS[minutesBefore] || `${minutesBefore}` with the minutes suffix.
TimeLabel(minutesBefore) ==
    IF minutesBefore \in {5, 15, 30, 60, 1440}
    THEN << "label", minutesBefore >>
    ELSE << minutesBefore, "minutes later" >>

\* Variant: the location line is written whether or not there is a location.
ComposeMessageAlwaysLocation(event, reminder) ==
    << << "bell", "header" >>, << >>,
       << "calendar", event.title >>,
       << "clock", FormatEventDate(event.startTime), FormatEventTime(event.startTime) >> >>
    \o << << "pin", IF event.location = None THEN "null" ELSE event.location[1] >> >>
    \o << << >>, << "hourglass", TimeLabel(reminder.minutesBefore) >> >>
    \o (IF IsTruthy(reminder.customMessage)
        THEN << << >>, << "memo", reminder.customMessage[1] >> >>
        ELSE << >>)

\* The message processReminders builds, as its lines: each line is its
\* emoji marker (named in ASCII) followed by its text; << >> is an empty line.
ComposeMessage(event, reminder) ==
    << << "bell", "header" >>, << >>,
       << "calendar", event.title >>,
       << "clock", FormatEventDate(event.startTime), FormatEventTime(event.startTime) >> >>
    \o (IF IsTruthy(event.location)
        THEN << << "pin", event.location[1] >> >>
        ELSE << >>)
    \o << << >>, << "hourglass", TimeLabel(reminder.minutesBefore) >> >>
    \o (IF IsTruthy(reminder.customMessage)
        THEN << << >>, << "memo", reminder.customMessage[1] >> >>
        ELSE << >>)

\* ------------------------------------------------- the display functions
\* Stored start times: 14:30 and 16:00 of 31 January 2024, 06:30 of the leap
\* day, 23:15 of 30 January (as the UTC parts of the stored Date).
StoredStartTimes ==
    { DateUTC(2024, 1, 31, 14, 30), DateUTC(2024, 1, 31, 16, 0),
      DateUTC(2024, 2, 29, 6, 30), DateUTC(2024, 1, 30, 23, 15) }

\* The days the calendar screen shows: CalendarDays days from 24 January 2024.
CalendarDays == 100
FirstCalendarDay == DayNumber(2024, 1, 24)
TargetDates == FirstCalendarDay .. (FirstCalendarDay + CalendarDays)

\* event.location and reminder.customMessage: null, the empty string, a text.
Locations == {None, << "" >>, << "room A" >>}
CustomMessages == {None, << "" >>, << "bring slides" >>}
\* minutesBefore with and without an entry in REMINDER_LABELS.
LeadTimes == {15, 45}

\* The state of the reminder job and of the event requests.
jobVars == << now, events, nextEventId, eventFriends, reminders, nextReminderId,
              intervalId, timers, cycles, ownerAttempts >>

\* A screen reads the date parts of a stored start time.
ShowDateParts(date, hourCycle) ==
    /\ call = NoCall
    /\ call' = [fn |-> "getDatePartsMY", date |-> date,
                parts |-> GetDatePartsMY(date, hourCycle)]
    /\ UNCHANGED << jobVars, friendRows, registrations >>

\* The calendar screen asks whether an event falls on a day.
ShowCalendarDay(event, targetDate, hourCycle) ==
    /\ call = NoCall
    /\ call' = [fn |-> "isEventOnDate", event |-> event, targetDate |-> targetDate,
                result |-> IsEventOnDate(event, targetDate, hourCycle)]
    /\ UNCHANGED << jobVars, friendRows, registrations >>

\* processReminders builds the message of a pending row.
BuildMessage(event, reminder) ==
    /\ call = NoCall
    /\ call' = [fn |-> "compose", event |-> event, reminder |-> reminder,
                message |-> ComposeMessage(event, reminder)]
    /\ UNCHANGED << jobVars, friendRows, registrations >>

\* The function returns to its caller (JavaScript runs one call at a time).
CallReturns ==
    /\ call # NoCall
    /\ call' = NoCall
    /\ UNCHANGED << jobVars, friendRows, registrations >>

NextDisplay ==
    \/ CallReturns
    \/ \E date \in StoredStartTimes, hourCycle \in HourCycles :
          ShowDateParts(date, hourCycle)
    \/ \E start \in StoredStartTimes, repeat \in RecurrenceClasses,
          targetDate \in TargetDates, hourCycle \in HourCycles :
          ShowCalendarDay([startTime |-> start, repeatType |-> repeat],
                          targetDate, hourCycle)
    \/ \E start \in StoredStartTimes, location \in Locations,
          customMessage \in CustomMessages, minutes \in LeadTimes :
          BuildMessage([title |-> "meeting", location |-> location, startTime |-> start],
                       [minutesBefore |-> minutes, customMessage |-> customMessage])

\* The display functions applied to every input of the sets above.
SpecDisplay == Init /\ [][NextDisplay]_vars

\* C21: for every stored start time, the month, day, hour and minute that
\* getDatePartsMY gives equal the ones the reminder pipeline uses for the
\* same value: the parts formatEventDate and formatEventTime print, and the
\* wall clock getPendingReminders compares with now + 8 h.
NormalizerAgreesWithPipeline ==
    call.fn = "getDatePartsMY" =>
        LET p == call.parts
            w == StoredWallClock(call.date)
        IN  /\ << p.month, "gatsu", p.day, "nichi" >> = FormatEventDate(call.date)
            /\ << p.hours, ":", p.minutes >> = FormatEventTime(call.date)
            /\ << p.month, p.day, p.hours, p.minutes >>
                   = << w.month, w.day, w.hours, w.minutes >>

\* The day on which the start time of the evaluated event falls in
\* Asia/Kuala_Lumpur (the anchor date), as a day number.
AnchorDay == (call.event.startTime + MalaysiaOffsetMinutes) \div MinutesPerDay

Evaluated(repeat) == call.fn = "isEventOnDate" /\ call.event.repeatType = repeat

\* C22: for an event that does not repeat, isEventOnDate is true iff the
\* candidate date is the anchor date, and false for every other date, the
\* earlier ones included.
NoneOnlyOnAnchorDate ==
    Evaluated("none") => (call.result <=> call.targetDate = AnchorDay)

\* C22 witness: an event that does not repeat was evaluated on a date before
\* its anchor date and on no account shown.
NoneRejectedOnEarlierDate ==
    /\ Evaluated("none")
    /\ call.targetDate < AnchorDay
    /\ ~call.result

\* C23: for a weekly event with anchor date D, isEventOnDate is true for D and
\* for every date on or after D on D's day of the week, false for every other date.
WeeklyOnAnchorWeekday ==
    Evaluated("weekly") =>
        (call.result <=> /\ call.targetDate >= AnchorDay
                         /\ (call.targetDate - AnchorDay) % 7 = 0)

\* C23 witness: a weekly event was evaluated four weeks after its anchor date
\* and shown.
WeeklyShownFourWeeksLater ==
    /\ Evaluated("weekly")
    /\ call.targetDate = AnchorDay + 28
    /\ call.result

\* C24: for a monthly event with anchor day-of-month d, isEventOnDate is true
\* only for dates on or after the anchor whose day-of-month is d (and for
\* each of them); a month without a day d has no matching date.
MonthlyOnAnchorDayOfMonth ==
    Evaluated("monthly") =>
        (call.result <=> /\ call.targetDate >= AnchorDay
                         /\ DateOfDay(call.targetDate).day = DateOfDay(AnchorDay).day)

\* C24 witness: a monthly event anchored on the 31st was evaluated on the
\* last day of a later 30-day month and not shown.
MonthlyNoRollover ==
    /\ Evaluated("monthly")
    /\ DateOfDay(AnchorDay).day = 31
    /\ call.targetDate > AnchorDay
    /\ DateOfDay(call.targetDate).day = 30
    /\ DateOfDay(call.targetDate + 1).day = 1
    /\ ~call.result

\* The lines of the composed message that start with the marker.
MarkerLines(marker) ==
    { i \in 1 .. Len(call.message) :
        call.message[i] # << >> /\ call.message[i][1] = marker }

HasText(field) == field # None /\ field # << "" >>

\* C25: the composed message has the custom-message section (marker and
\* text) iff the reminder has a non-empty customMessage, and the location
\* line iff the event has a location; no marker line is left without text.
SectionsFollowFields ==
    call.fn = "compose" =>
        /\ (MarkerLines("memo") # {}) <=> HasText(call.reminder.customMessage)
        /\ \A i \in MarkerLines("memo") :
              call.message[i] = << "memo", call.reminder.customMessage[1] >>
        /\ (MarkerLines("pin") # {}) <=> HasText(call.event.location)
        /\ \A i \in MarkerLines("pin") :
              call.message[i] = << "pin", call.event.location[1] >>
        /\ \A i \in MarkerLines("memo") \cup MarkerLines("pin") :
              call.message[i][2] # ""

\* C25 witness: a message was composed for a reminder with a custom message
\* and an event without location: it ends with the memo section and has no
\* location line.
MemoWithoutLocation ==
    /\ call.fn = "compose"
    /\ call.reminder.customMessage = << "bring slides" >>
    /\ call.event.location = None
    /\ call.message[Len(call.message)] = << "memo", "bring slides" >>
    /\ MarkerLines("pin") = {}

\* ------------------------------------------------------- the job, for ever
\* Variant of TimerFires: a one-shot timer (setTimeout), gone once it fired.
TimerFiresOnce(h, cap) ==
    /\ h \in DOMAIN timers
    /\ BagCardinality(cycles) < cap
    /\ timers' = Remove(timers, h)
    /\ cycles' = cycles (+) SetToBag({StartedCycle})
    /\ UNCHANGED << now, events, nextEventId, eventFriends, reminders, nextReminderId,
                    intervalId, ownerAttempts, restVars >>

\* reminder-job.ts:132-137 the setInterval timer fires period after period
\* for as long as it is installed. The periods that pass are not counted: the
\* clock reading stays where Advance left it, which keeps every row that is
\* due a due row (a later reading selects the same rows and more).
TimerFires(h, cap) ==
    /\ h \in DOMAIN timers
    /\ BagCardinality(cycles) < cap
    /\ cycles' = cycles (+) SetToBag({StartedCycle})
    /\ UNCHANGED << now, events, nextEventId, eventFriends, reminders, nextReminderId,
                    intervalId, timers, ownerAttempts, restVars >>

\* The persistence calls of an activation that succeed: getPendingReminders
\* gives the rows, getTelegramSettings in the owner send answers,
\* markReminderNotified writes the row.
QuerySucceeds ==
    \E cy \in BagToSet(cycles) :
        /\ CycleQuery(cy)
        /\ \E n \in BagToSet(cycles') :
              /\ Moves(cy, "query", n)
              /\ n.err = "none" /\ n.pending = PendingRows(reminders, events, now)

OwnerSendReturns ==
    \E cy \in BagToSet(cycles) :
        /\ CycleOwner(cy)
        /\ \E n \in BagToSet(cycles') : Moves(cy, "owner", n) /\ n.pc = "friends"

MarkSucceeds ==
    \E cy \in BagToSet(cycles) :
        /\ CycleMark(cy)
        /\ \E n \in BagToSet(cycles') : Moves(cy, "mark", n) /\ n.err = "none"

NextLive ==
    \/ StartReminderJob(MaxCycles)
    \/ StopReminderJob
    \/ \E h \in DOMAIN timers : TimerFires(h, MaxCycles)
    \/ \E d \in ClockSteps : Advance(d)
    \/ CycleStep

\* The event loop runs every continuation that is ready and the runtime fires
\* an installed timer (weak fairness); a persistence call that is made again
\* and again succeeds at some time (strong fairness).
FairLive ==
    /\ WF_vars(CycleStep)
    /\ WF_vars(\E h \in DOMAIN timers : TimerFires(h, MaxCycles))
    /\ SF_vars(QuerySucceeds)
    /\ SF_vars(OwnerSendReturns)
    /\ SF_vars(MarkSucceeds)

\* The job running without end over the database of InitOverlap.
SpecLive == InitOverlap /\ [][NextLive]_vars /\ FairLive

\* The row exists, is not notified and its notify time has arrived.
DueUnnotified(r) ==
    /\ r \in DOMAIN reminders
    /\ ~reminders[r].notified
    /\ reminders[r].eventId \in DOMAIN events
    /\ events[reminders[r].eventId].startTime - reminders[r].minutesBefore * MsPerMinute
          <= now + MalaysiaOffsetMs

\* C26: while the job is started and not stopped and the persistence calls
\* succeed in the end, every row that is not notified and whose notify time
\* has arrived is marked notified at some time.
DueRowEventuallyMarked ==
    \A r \in 1 .. MaxReminders :
        (DueUnnotified(r) /\ intervalId # Null)
            ~> ((r \in DOMAIN reminders /\ reminders[r].notified) \/ intervalId = Null)

\* C26 witness: the job is running and a due row whose markReminderNotified
\* had failed in an earlier activation is marked notified.
MarkedAfterFailedMark ==
    \E r \in DOMAIN reminders :
        /\ reminders[r].notified
        /\ ownerAttempts[r] = "markFailed"
        /\ intervalId # Null

\* C27: no message is sent for a reminder row that is no longer there: once
\* events.delete or the reminder replacement of events.update has removed
\* the row, no activation hands an owner message of that row to Telegram and
\* none delivers a friend message of it.
NoSendForRemovedRow ==
    [][ \A cy \in BagToSet(cycles) : \A n \in BagToSet(cycles') :
          /\ (Moves(cy, "owner", n) /\ ownerAttempts' # ownerAttempts)
                => cy.pending[cy.idx].rid \in DOMAIN reminders
          /\ (Moves(cy, "friend", n) /\ n.flog = Append(cy.flog, "true"))
                => cy.pending[cy.idx].rid \in DOMAIN reminders ]_vars

\* C28: in every state a reminder row has notifiedAt set iff its notified
\* flag is true.
NotifiedAtIffNotified ==
    \A r \in DOMAIN reminders :
        (reminders[r].notifiedAt # Null) <=> reminders[r].notified

\* C28 witness: next to a row that markReminderNotified has written (flag
\* and time) there is a row of the same event still as createReminder left it.
MarkedRowBesideFreshRow ==
    \E r, q \in DOMAIN reminders :
        /\ reminders[r].notified /\ reminders[r].notifiedAt = now
        /\ ~reminders[q].notified /\ reminders[q].notifiedAt = Null
        /\ reminders[r].eventId = reminders[q].eventId

\* C29: events.delete and events.update called by a user who does not own
\* the event leave the event row and its reminder rows, notified flags
\* included, as they were.
NonOwnerChangesNothing ==
    [][ \A id \in DOMAIN events : \A uid \in Users \ {events[id].userId} :
          ( \/ DeleteEvent(id, uid)
            \/ \E start \in Some(StartTimes) \cup {None},
                  minutes \in Some(MinuteLists) \cup {None},
                  friendIds \in Some(FriendLists) \cup {None} :
                  UpdateEvent(id, uid, start, None, minutes, friendIds) )
          => /\ id \in DOMAIN events'
             /\ events'[id] = events[id]
             /\ \A r \in DOMAIN reminders :
                   reminders[r].eventId = id =>
                       (r \in DOMAIN reminders' /\ reminders'[r] = reminders[r]) ]_vars

\* ------------------------------------------------- /register (the webhook)
\* Requests handled at the same time, and rows the friends table holds.
MaxRegistrations == 2
MaxFriendRows == 3

\* The chat ids /register comes from (message.chat.id).
ChatIds == {7, 8}

\* The rows of the friends table with this owner and chat id (db.ts:461-465).
ExistingFriends(rows, userId, chatId) ==
    { i \in DOMAIN rows : rows[i].userId = userId /\ rows[i].telegramChatId = chatId }

\* The registrations that may still insert a row.
BeforeInsert == {rg \in BagToSet(registrations) : rg.pc \in {"select", "insert"}}

\* telegram-webhook.ts:79-117 "/register USER_<id>" with a valid code arrives
\* and the handler calls db.registerFriendFromTelegram. known: whether the
\* friends table has the row at that time.
ReceiveRegister(userId, chatId) ==
    /\ BagCardinality(registrations) < MaxRegistrations
    /\ Len(friendRows) + BagCardinality([rg \in BeforeInsert |-> registrations[rg]])
          < MaxFriendRows
    /\ registrations' = registrations (+) SetToBag({
          [pc |-> "select", userId |-> userId, chatId |-> chatId,
           known |-> ExistingFriends(friendRows, userId, chatId) # {},
           result |-> "none"]})
    /\ UNCHANGED << jobVars, call, friendRows >>

\* db.ts:460-469 await db.select() ... ; if (existing.length > 0) return
\* { id, isNew: false }. A rejected query is caught at telegram-webhook.ts:146.
RegisterSelect(rg) ==
    /\ rg.pc = "select"
    /\ \E outcome \in {"ok", "raise"} :
          registrations' = Replace(registrations, rg,
              IF outcome = "raise" THEN [rg EXCEPT !.pc = "reply", !.result = "failed"]
              ELSE IF ExistingFriends(friendRows, rg.userId, rg.chatId) # {}
              THEN [rg EXCEPT !.pc = "reply", !.result = "isNew false"]
              ELSE [rg EXCEPT !.pc = "insert"])
    /\ UNCHANGED << jobVars, call, friendRows >>

\* db.ts:471-479 await db.insert(friends).values(...); return { id, isNew: true }
RegisterInsert(rg) ==
    /\ rg.pc = "insert"
    /\ \E outcome \in {"ok", "raise"} :
          IF outcome = "ok"
          THEN /\ friendRows' = Append(friendRows,
                      [userId |-> rg.userId, telegramChatId |-> rg.chatId])
               /\ registrations' = Replace(registrations, rg,
                      [rg EXCEPT !.pc = "reply", !.result = "isNew true"])
          ELSE /\ friendRows' = friendRows
               /\ registrations' = Replace(registrations, rg,
                      [rg EXCEPT !.pc = "reply", !.result = "failed"])
    /\ UNCHANGED << jobVars, call >>

\* telegram-webhook.ts:129-153 the reply is sent to the chat and the handler ends.
RegisterReply(rg) ==
    /\ rg.pc = "reply"
    /\ registrations' = registrations (-) SetToBag({rg})
    /\ UNCHANGED << jobVars, call, friendRows >>

NextRegister ==
    \/ \E userId \in Users, chatId \in ChatIds : ReceiveRegister(userId, chatId)
    \/ \E rg \in BagToSet(registrations) : RegisterSelect(rg)
    \/ \E rg \in BagToSet(registrations) : RegisterInsert(rg)
    \/ \E rg \in BagToSet(registrations) : RegisterReply(rg)

\* The webhook handling /register commands that arrive at any time.
SpecRegister == Init /\ [][NextRegister]_vars

\* C30: after any sequence and interleaving of /register commands the friends
\* table has at most one row for an owner and a chat id, and a registration
\* that arrives when the row is there reports isNew = false (it inserts
\* only when it reports isNew = true).
RegistrationUnique ==
    /\ \A i, j \in DOMAIN friendRows :
          (friendRows[i].userId = friendRows[j].userId
             /\ friendRows[i].telegramChatId = friendRows[j].telegramChatId) => i = j
    /\ \A rg \in BagToSet(registrations) :
          (rg.known /\ rg.pc = "reply") => rg.result \in {"isNew false", "failed"}

====
